---- MODULE Spec2Model ----
(***************************************************************************)
(* The reference-counted arenas of kernel-rs/src/arena.rs:                 *)
(* Spinlock<ArrayArena> (fixed slab) and Spinlock<MruArena> (recency       *)
(* ordered), the Rc smart handle built on them, and the finalization       *)
(* protocol with reacquire_after.  Several threads call the arena; every   *)
(* call spins for the arena's Spinlock, runs its body under it and         *)
(* releases it.                                                            *)
(***************************************************************************)
EXTENDS Integers, Sequences, FiniteSets, TLC

\* ------------------------------------------------------------------ bounds
\* CAPACITY of the arena under check.
Capacity == 3
\* Live Rc values plus calls in flight that will create one.
MaxHandles == 2
\* Depth of deallocs nested inside reacquire_after windows of one thread.
MaxNest == 1

Threads == {"t1", "t2"}
\* The thread of the single-threaded specification.
MainThread == "t1"
\* Values the key of an object (for an inode: (dev, inum)) ranges over.
Keys == {1, 2}
\* What the closure handed to reacquire_after may return.
FResults == {"r1", "r2"}

Slots == 1..Capacity
Strategies == {"array", "mru"}

\* ptr::null_mut(): no entry.
Null == 0
\* The key of an entry nobody initialized yet (Inode::new: dev 0, inum 0).
NoKey == 0
\* The Spinlock is free.
NoThread == "none"

VARIABLES
    strategy,   \* which Arena implementation this arena is
    refcnt,     \* entries[i].refcnt
    data,       \* entries[i].data, reduced to the key the predicates test
    list,       \* MruArena.list, front to back (<< >> for ArrayArena)
    lock,       \* the thread holding the Spinlock, or NoThread
    handles,    \* per slot: Rc values alive and not inside a call
    stk,        \* per thread: the arena calls it is inside, outermost first
    fins,       \* per slot: finalize calls since its refcnt last left 0
    broken,     \* a caller has broken the safety contract of reacquire_after
    ev          \* what the last step did to the arena

vars == <<strategy, refcnt, data, list, lock, handles, stk, fins, broken, ev>>

\* ------------------------------------------------------- the recency list
\* crate::list is not among the sources; these follow the specification's
\* "intrusive doubly-linked list ... O(1) unlink/push-to-end and
\* forward/backward iteration".
PushFront(l, e) == <<e>> \o l
PushBack(l, e) == Append(l, e)
ListRemove(l, e) == SelectSeq(l, LAMBDA x : x # e)
Rev(l) == [i \in 1..Len(l) |-> l[Len(l) + 1 - i]]

RECURSIVE MruInitFrom(_, _)
\* MruArena::init: push_front of every entry, in array order.
MruInitFrom(l, i) ==
    IF i > Capacity THEN l ELSE MruInitFrom(PushFront(l, i), i + 1)
MruInit == MruInitFrom(<< >>, 1)

\* ------------------------------------------------------------ predicates
\* The predicate c of find_or_alloc: Itable::get_inode's
\* |inode| inode.dev == dev && inode.inum == inum.
Matches(k, d) == d = k
\* The initializer n: inode.dev = dev; inode.inum = inum.
InitData(k) == k

\* ----------------------------------------------- ArrayArena, find_or_alloc
RECURSIVE ArrayScan(_, _, _, _, _)
\* The for loop of Spinlock<ArrayArena>::find_or_alloc_handle from entry i
\* on: the matching entry it returns, or the `empty` it ends with.
ArrayScan(rc, d, k, i, empty) ==
    IF i > Capacity THEN [found |-> Null, empty |-> empty]
    ELSE IF rc[i] # 0
         THEN IF Matches(k, d[i])
              THEN [found |-> i, empty |-> empty]
              ELSE ArrayScan(rc, d, k, i + 1, empty)
         ELSE IF empty = Null
              THEN [found |-> Null, empty |-> i]      \* empty = entry; break
              ELSE ArrayScan(rc, d, k, i + 1, empty)

ArrayFindOrAlloc(rc, d, k) == ArrayScan(rc, d, k, 1, Null)

RECURSIVE ArrayFirstFreeOrLast(_, _)
\* An alloc_handle that takes an entry with one reference for a free one.
ArrayFirstFreeOrLast(rc, i) ==
    IF i > Capacity THEN Null
    ELSE IF rc[i] <= 1 THEN i ELSE ArrayFirstFreeOrLast(rc, i + 1)

RECURSIVE ArrayFirstFree(_, _)
\* The for loop of Spinlock<ArrayArena>::alloc_handle.
ArrayFirstFree(rc, i) ==
    IF i > Capacity THEN Null
    ELSE IF rc[i] = 0 THEN i ELSE ArrayFirstFree(rc, i + 1)

ArrayAlloc(rc) == ArrayFirstFree(rc, 1)

\* ------------------------------------------------- MruArena, find_or_alloc
RECURSIVE MruScanOrLast(_, _, _, _, _, _)
\* A scan that takes an entry with one reference for an unreferenced one.
MruScanOrLast(rc, d, k, l, i, empty) ==
    IF i > Len(l) THEN [found |-> Null, empty |-> empty]
    ELSE IF Matches(k, d[l[i]])
         THEN [found |-> l[i], empty |-> empty]
         ELSE IF rc[l[i]] <= 1
              THEN MruScanOrLast(rc, d, k, l, i + 1, l[i])
              ELSE MruScanOrLast(rc, d, k, l, i + 1, empty)

RECURSIVE MruScan(_, _, _, _, _, _)
\* The for loop of Spinlock<MruArena>::find_or_alloc_handle over
\* list.iter_unchecked(), from position i on.
MruScan(rc, d, k, l, i, empty) ==
    IF i > Len(l) THEN [found |-> Null, empty |-> empty]
    ELSE IF Matches(k, d[l[i]])
         THEN [found |-> l[i], empty |-> empty]
         ELSE IF rc[l[i]] = 0
              THEN MruScan(rc, d, k, l, i + 1, l[i])
              ELSE MruScan(rc, d, k, l, i + 1, empty)

MruFindOrAlloc(rc, d, k, l) == MruScan(rc, d, k, l, 1, Null)

RECURSIVE FirstFreeIn(_, _, _)
FirstFreeIn(rc, l, i) ==
    IF i > Len(l) THEN Null
    ELSE IF rc[l[i]] = 0 THEN l[i] ELSE FirstFreeIn(rc, l, i + 1)

\* An alloc_handle that scans the list from its front.
MruAllocForward(rc, l) == FirstFreeIn(rc, l, 1)
\* The for loop of Spinlock<MruArena>::alloc_handle over
\* list.iter_unchecked().rev().
MruAlloc(rc, l) == FirstFreeIn(rc, Rev(l), 1)

\* ------------------------------------------------------ both strategies
FindOrAllocHandle(st, rc, d, l, k) ==
    IF st = "array" THEN ArrayFindOrAlloc(rc, d, k)
    ELSE MruFindOrAlloc(rc, d, k, l)

AllocHandle(st, rc, l) ==
    IF st = "array" THEN ArrayAlloc(rc) ELSE MruAlloc(rc, l)

\* A dealloc that pushes the entry to the back without unlinking it.
RelinkNoRemove(st, l, s, newrc) ==
    IF st = "mru" /\ newrc = 0 THEN PushBack(l, s) ELSE l
\* A dealloc that relinks the entry at the back on every release.
RelinkAlways(st, l, s, newrc) ==
    IF st = "mru" THEN PushBack(ListRemove(l, s), s) ELSE l
\* dealloc's bookkeeping once refcnt was decremented: MruArena relinks an
\* entry that reached 0 at the back; ArrayArena moves nothing.
Relink(st, l, s, newrc) ==
    IF st = "mru" /\ newrc = 0 THEN PushBack(ListRemove(l, s), s) ELSE l

\* A dealloc that finalizes on every release.
CallsFinalizeAlways(rc) == rc >= 1
\* `if entry.refcnt == 1` of dealloc: whether finalize is called.
CallsFinalize(rc) == rc = 1

\* A dealloc that forgets the decrement.
NoDecrement(rc) == rc
\* entry.refcnt -= 1.  On a usize 0 this would panic or wrap; the model lets
\* the value leave Nat, where the claims about underflow can see it.
Decrement(rc) == rc - 1

\* SpinlockGuard::reacquire_after (crate::lock is not among the sources;
\* the specification: "temporarily releases the lock, runs f, then
\* re-acquires the lock before returning f's result").
\* A guard that keeps the lock while the closure runs.
GuardKeeps(t) == t
\* The holder of the lock once thread t's guard released it for the closure.
GuardRelease(t) == NoThread
\* The holder of the lock once thread t's guard took it back.
GuardReacquire(t) == t
\* What reacquire_after returns when the closure returned fres.
ReacquireResult(fres) == fres

\* ---------------------------------------------------------------- state
Frame(op, arg, pc) == [op |-> op, arg |-> arg, pc |-> pc, fres |-> "none", ret |-> "none"]

Top(t) == stk[t][Len(stk[t])]
Idle(t) == stk[t] = << >>
At(t, op, pc) == ~Idle(t) /\ Top(t).op = op /\ Top(t).pc = pc
Push(t, f) == [stk EXCEPT ![t] = Append(@, f)]
Pop(t) == [stk EXCEPT ![t] = SubSeq(@, 1, Len(@) - 1)]
SetTop(t, f) == [stk EXCEPT ![t] = [@ EXCEPT ![Len(@)] = f]]

\* f[1] + ... + f[n].
RECURSIVE SumOver(_, _)
SumOver(f, n) ==
    IF n = 0 THEN 0 ELSE f[n] + SumOver(f, n - 1)

\* Positions (thread, depth) of the calls in flight that satisfy P.
InFlight(P(_)) ==
    UNION {{<<t, i>> : i \in {j \in DOMAIN stk[t] : P(stk[t][j])}} : t \in Threads}

\* Calls in flight that will hand out a new handle.
Creators == InFlight(LAMBDA f : f.op \in {"foa", "alloc", "dup"})
\* Handles moved into a call in flight: a dealloc that has not decremented
\* yet owns its handle, a dup borrows the one it copies.
HeldBy(s) == InFlight(LAMBDA f : f.op \in {"dealloc", "dup"} /\ f.arg = s)

HeldAll == InFlight(LAMBDA f : f.op \in {"dealloc", "dup"})

LiveHandles(s) == handles[s] + Cardinality(HeldBy(s))
\* Every handle there is or is about to be (a dup in flight counts twice).
TotalHandles ==
    SumOver(handles, Capacity) + Cardinality(HeldAll) + Cardinality(Creators)

\* Slots whose finalize has been called and whose dealloc has not finished.
Finalizing ==
    {s \in Slots : InFlight(LAMBDA f : f.op = "dealloc" /\ f.arg = s
                                        /\ f.pc \in {"window", "reacq", "relocked"}) # {}}

NoEv == [op |-> "none", key |-> NoKey, slot |-> Null, init |-> Null, fin |-> Null, pre |-> 0]
Ev(op, k, s, i, f, p) == [op |-> op, key |-> k, slot |-> s, init |-> i, fin |-> f, pre |-> p]

Init ==
    /\ strategy \in Strategies
    /\ refcnt = [s \in Slots |-> 0]
    /\ data = [s \in Slots |-> NoKey]
    /\ list = IF strategy = "mru" THEN MruInit ELSE << >>
    /\ lock = NoThread
    /\ handles = [s \in Slots |-> 0]
    /\ stk = [t \in Threads |-> << >>]
    /\ fins = [s \in Slots |-> 0]
    /\ broken = FALSE
    /\ ev = NoEv

\* ------------------------------------------------------------- the calls
\* A thread outside the arena, or inside the closure of a reacquire_after
\* (where the model lets it release further Rc's), may start a call.
CanNest(t) == ~Idle(t) /\ Top(t).pc = "window" /\ Len(stk[t]) <= MaxNest

\* Arena::find_or_alloc(c, n) is called: the thread starts to spin.
FindOrAllocCall(t, k) ==
    /\ Idle(t)
    /\ TotalHandles < MaxHandles
    /\ stk' = Push(t, Frame("foa", k, "wait"))
    /\ ev' = NoEv
    /\ UNCHANGED <<broken, strategy, refcnt, data, list, lock, handles, fins>>

\* Arena::alloc(f) is called.
AllocCall(t, k) ==
    /\ Idle(t)
    /\ TotalHandles < MaxHandles
    /\ stk' = Push(t, Frame("alloc", k, "wait"))
    /\ ev' = NoEv
    /\ UNCHANGED <<broken, strategy, refcnt, data, list, lock, handles, fins>>

\* Rc::clone: tag.dup(&self.inner); the Rc copied stays borrowed meanwhile.
DupCall(t, s) ==
    /\ Idle(t)
    /\ handles[s] > 0
    /\ TotalHandles < MaxHandles
    /\ handles' = [handles EXCEPT ![s] = @ - 1]
    /\ stk' = Push(t, Frame("dup", s, "wait"))
    /\ ev' = NoEv
    /\ UNCHANGED <<broken, strategy, refcnt, data, list, lock, fins>>

\* A drop that calls dealloc and leaves the handle usable: the handle can
\* be deallocated again.
DeallocCallAgain(t, s) ==
    /\ Idle(t) \/ CanNest(t)
    /\ handles[s] > 0
    /\ stk' = Push(t, Frame("dealloc", s, "wait"))
    /\ ev' = NoEv
    /\ UNCHANGED <<broken, strategy, refcnt, data, list, lock, handles, fins>>

\* Rc::drop: tag.dealloc(ManuallyDrop::take(&mut self.inner)).
DeallocCall(t, s) ==
    /\ Idle(t) \/ CanNest(t)
    /\ handles[s] > 0
    /\ handles' = [handles EXCEPT ![s] = @ - 1]
    /\ stk' = Push(t, Frame("dealloc", s, "wait"))
    /\ ev' = NoEv
    /\ UNCHANGED <<broken, strategy, refcnt, data, list, lock, fins>>

\* A lock() that returns whether or not the Spinlock is free.
AcquireBarging(t) ==
    /\ ~Idle(t)
    /\ Top(t).pc = "wait"
    /\ lock' = t
    /\ stk' = SetTop(t, [Top(t) EXCEPT !.pc = "cs"])
    /\ ev' = NoEv
    /\ UNCHANGED <<broken, strategy, refcnt, data, list, handles, fins>>

\* self.lock() returns: the spinning thread got the Spinlock.
Acquire(t) ==
    /\ ~Idle(t)
    /\ Top(t).pc = "wait"
    /\ lock = NoThread
    /\ lock' = t
    /\ stk' = SetTop(t, [Top(t) EXCEPT !.pc = "cs"])
    /\ ev' = NoEv
    /\ UNCHANGED <<broken, strategy, refcnt, data, list, handles, fins>>

\* A handle to slot s leaves the arena: entry.refcnt is set to rc, and a
\* lifetime of the slot starts when it was 0.
HandOut(s, rc) ==
    /\ refcnt' = [refcnt EXCEPT ![s] = rc]
    /\ handles' = [handles EXCEPT ![s] = @ + 1]
    /\ fins' = IF refcnt[s] = 0 THEN [fins EXCEPT ![s] = 0] ELSE fins

\* The safety contract of reacquire_after, which the callers keep and the
\* arena cannot check: while a finalizer has released the lock, nobody runs
\* a find_or_alloc whose predicate matches the object being finalized.
\* A find_or_alloc for key k that is handed slot s as its match breaks it
\* when s is being finalized.
BreaksContract(k, s) == s \in Finalizing /\ Matches(k, data[s])

\* The body of find_or_alloc_handle, under the lock, to its return.
FindOrAllocBody(t) ==
    /\ At(t, "foa", "cs")
    /\ lock = t
    /\ LET k == Top(t).arg
           r == FindOrAllocHandle(strategy, refcnt, data, list, k)
       IN  IF r.found # Null
           THEN /\ HandOut(r.found, refcnt[r.found] + 1)
                /\ data' = data
                /\ broken' = (broken \/ BreaksContract(k, r.found))
                /\ ev' = Ev("foa", k, r.found, Null, Null, refcnt[r.found])
           ELSE IF r.empty = Null
           THEN /\ UNCHANGED <<refcnt, data, handles, fins, broken>>
                /\ ev' = Ev("foa", k, Null, Null, Null, 0)
           ELSE /\ HandOut(r.empty, 1)
                /\ data' = [data EXCEPT ![r.empty] = InitData(k)]
                /\ broken' = broken
                /\ ev' = Ev("foa", k, r.empty, r.empty, Null, refcnt[r.empty])
    /\ lock' = NoThread
    /\ stk' = Pop(t)
    /\ UNCHANGED <<strategy, list>>

\* The body of alloc_handle, under the lock, to its return.
AllocBody(t) ==
    /\ At(t, "alloc", "cs")
    /\ lock = t
    /\ LET k == Top(t).arg
           s == AllocHandle(strategy, refcnt, list)
       IN  IF s = Null
           THEN /\ UNCHANGED <<refcnt, data, handles, fins>>
                /\ ev' = Ev("alloc", k, Null, Null, Null, 0)
           ELSE /\ HandOut(s, 1)
                /\ data' = [data EXCEPT ![s] = InitData(k)]
                /\ ev' = Ev("alloc", k, s, s, Null, refcnt[s])
    /\ lock' = NoThread
    /\ stk' = Pop(t)
    /\ UNCHANGED <<broken, strategy, list>>

\* The body of dup, under the lock: the borrowed Rc and its copy come back.
DupBody(t) ==
    /\ At(t, "dup", "cs")
    /\ lock = t
    /\ LET s == Top(t).arg
       IN  /\ refcnt' = [refcnt EXCEPT ![s] = @ + 1]
           /\ handles' = [handles EXCEPT ![s] = @ + 2]
           /\ ev' = Ev("dup", data[s], s, Null, Null, refcnt[s])
    /\ lock' = NoThread
    /\ stk' = Pop(t)
    /\ UNCHANGED <<broken, strategy, data, list, fins>>

\* A dealloc that forgets the guard instead of the handle: the lock stays
\* taken.
DeallocTailKeepsGuard(t, s, fin) ==
    /\ refcnt' = [refcnt EXCEPT ![s] = Decrement(@)]
    /\ list' = Relink(strategy, list, s, Decrement(refcnt[s]))
    /\ lock' = lock
    /\ stk' = Pop(t)
    /\ ev' = Ev("dealloc", data[s], s, Null, fin, refcnt[s])
    /\ UNCHANGED <<strategy, data, handles, broken>>

\* dealloc from `entry.refcnt -= 1` to its return: decrement, relink
\* (MruArena), forget the handle, drop the guard.
DeallocTail(t, s, fin) ==
    /\ refcnt' = [refcnt EXCEPT ![s] = Decrement(@)]
    /\ list' = Relink(strategy, list, s, Decrement(refcnt[s]))
    /\ lock' = NoThread
    /\ stk' = Pop(t)
    /\ ev' = Ev("dealloc", data[s], s, Null, fin, refcnt[s])
    /\ UNCHANGED <<strategy, data, handles, broken>>

\* dealloc under the lock when finalize is not called.
DeallocPlain(t) ==
    /\ At(t, "dealloc", "cs")
    /\ lock = t
    /\ ~CallsFinalize(refcnt[Top(t).arg])
    /\ DeallocTail(t, Top(t).arg, Null)
    /\ UNCHANGED fins

CountFinalize(s) == [fins EXCEPT ![s] = IF @ < 2 THEN @ + 1 ELSE @]

\* dealloc of the last handle with a finalize that keeps the lock.
DeallocFinalize(t) ==
    /\ At(t, "dealloc", "cs")
    /\ lock = t
    /\ CallsFinalize(refcnt[Top(t).arg])
    /\ fins' = CountFinalize(Top(t).arg)
    /\ DeallocTail(t, Top(t).arg, Top(t).arg)

\* A dealloc that decrements before it calls finalize.
ReacquireBeginFreed(t) ==
    /\ At(t, "dealloc", "cs")
    /\ lock = t
    /\ CallsFinalize(refcnt[Top(t).arg])
    /\ fins' = CountFinalize(Top(t).arg)
    /\ refcnt' = [refcnt EXCEPT ![Top(t).arg] = Decrement(@)]
    /\ lock' = GuardRelease(t)
    /\ stk' = SetTop(t, [Top(t) EXCEPT !.pc = "window"])
    /\ ev' = Ev("finalize", data[Top(t).arg], Top(t).arg, Null, Top(t).arg,
                refcnt[Top(t).arg])
    /\ UNCHANGED <<broken, strategy, data, list, handles>>

\* dealloc of the last handle with a finalize that calls
\* A::reacquire_after(guard, f): the lock is released and f starts.
ReacquireBegin(t) ==
    /\ At(t, "dealloc", "cs")
    /\ lock = t
    /\ CallsFinalize(refcnt[Top(t).arg])
    /\ fins' = CountFinalize(Top(t).arg)
    /\ lock' = GuardRelease(t)
    /\ stk' = SetTop(t, [Top(t) EXCEPT !.pc = "window"])
    /\ ev' = Ev("finalize", data[Top(t).arg], Top(t).arg, Null, Top(t).arg,
                refcnt[Top(t).arg])
    /\ UNCHANGED <<broken, strategy, refcnt, data, list, handles>>

\* The closure f returns r; reacquire_after starts to spin for the lock.
ClosureReturn(t, r) ==
    /\ At(t, "dealloc", "window")
    /\ stk' = SetTop(t, [Top(t) EXCEPT !.pc = "reacq", !.fres = r])
    /\ ev' = NoEv
    /\ UNCHANGED <<broken, strategy, refcnt, data, list, lock, handles, fins>>

\* reacquire_after got the lock back and returns into finalize.
ReacquireEnd(t) ==
    /\ At(t, "dealloc", "reacq")
    /\ lock = NoThread
    /\ lock' = GuardReacquire(t)
    /\ stk' = SetTop(t, [Top(t) EXCEPT !.pc = "relocked",
                                        !.ret = ReacquireResult(Top(t).fres)])
    /\ ev' = NoEv
    /\ UNCHANGED <<broken, strategy, refcnt, data, list, handles, fins>>

\* finalize returns and dealloc runs to its end.
DeallocFinish(t) ==
    /\ At(t, "dealloc", "relocked")
    /\ lock = t
    /\ DeallocTail(t, Top(t).arg, Top(t).arg)
    /\ UNCHANGED fins

\* What a thread does with alloc.
AllocStep(t) ==
    \/ \E k \in Keys : AllocCall(t, k)
    \/ AllocBody(t)

\* What a thread does with find_or_alloc, Rc::clone and Rc::drop.
CacheStep(t) ==
    \/ \E k \in Keys : FindOrAllocCall(t, k)
    \/ \E s \in Slots : DupCall(t, s)
    \/ \E s \in Slots : DeallocCall(t, s)
    \/ Acquire(t)
    \/ FindOrAllocBody(t)
    \/ DupBody(t)
    \/ DeallocPlain(t)
    \/ DeallocFinalize(t)
    \/ ReacquireBegin(t)
    \/ \E r \in FResults : ClosureReturn(t, r)
    \/ ReacquireEnd(t)
    \/ DeallocFinish(t)

Step(t) == CacheStep(t) \/ AllocStep(t)

Next == \E t \in Threads : Step(t)

Spec == Init /\ [][Next]_vars

\* A thread inside a call under the lock runs on to the end of the call (or
\* to the reacquire_after of its finalizer).
Progress(t) ==
    \/ FindOrAllocBody(t)
    \/ AllocBody(t)
    \/ DupBody(t)
    \/ DeallocPlain(t)
    \/ DeallocFinalize(t)
    \/ ReacquireBegin(t)
    \/ DeallocFinish(t)

\* The step thread t takes next in its innermost call, unless that call is
\* inside the closure of a reacquire_after: getting the lock, the body, the
\* return.
Advance(t) == Acquire(t) \/ Progress(t) \/ ReacquireEnd(t)

\* The closure of the reacquire_after of thread t's call at depth d returns.
ClosureReturnAt(t, d) ==
    Len(stk[t]) = d /\ \E r \in FResults : ClosureReturn(t, r)

\* Threads keep running, the lock is fair (a thread that spins for it while
\* it is free again and again gets it), and every closure of a
\* reacquire_after returns after the calls it makes.
Fairness ==
    \A t \in Threads :
        /\ SF_vars(Advance(t))
        /\ \A d \in 1..(MaxNest + 1) : SF_vars(ClosureReturnAt(t, d))

FairSpec == Init /\ [][Next]_vars /\ Fairness

\* The arena used as a cache of keyed objects, the way Itable uses it:
\* every object is created by find_or_alloc (get_inode), none by alloc.
NextCache == \E t \in Threads : CacheStep(t)
SpecCache == Init /\ [][NextCache]_vars

TypeOK ==
    /\ strategy \in Strategies
    /\ refcnt \in [Slots -> 0..MaxHandles]
    /\ data \in [Slots -> Keys \cup {NoKey}]
    /\ lock \in Threads \cup {NoThread}
    /\ handles \in [Slots -> 0..MaxHandles]
    /\ \A t \in Threads : Len(stk[t]) <= MaxNest + 1
    /\ broken \in BOOLEAN

\* One thread alone: a sequence of calls (with the releases its own
\* finalizers make inside reacquire_after).
NextSeq == Step(MainThread)
SpecSeq == Init /\ [][NextSeq]_vars

\* --------------------------------------------------------------- claims
Occupied(s) == refcnt[s] > 0
\* A dealloc has just returned.
Deallocated == ev.op = "dealloc"

\* C1: single-threaded, finalize runs exactly once per occupied lifetime of
\* a slot (a period in which its refcnt is not 0): the dealloc that returns
\* with the refcnt at 0 is the one that ran finalize, a dealloc that leaves
\* the refcnt above 0 ran none, and a slot that is free again has seen
\* exactly one finalize since it was last handed out.
C1_FinalizeExactlyOnce ==
    /\ Deallocated => (ev.fin = ev.slot <=> refcnt[ev.slot] = 0)
    /\ Deallocated /\ ev.fin = ev.slot => ev.pre = 1
    /\ \A s \in Slots :
          /\ fins[s] <= 1
          /\ refcnt[s] = 0 => fins[s] = (IF data[s] = NoKey THEN 0 ELSE 1)
          /\ Occupied(s) => fins[s] = (IF s \in Finalizing THEN 1 ELSE 0)

\* A slot released down to 0 with its finalize done, after another slot
\* went through a whole lifetime as well.
C1_Witness ==
    /\ Deallocated /\ ev.fin = ev.slot /\ refcnt[ev.slot] = 0
    /\ fins[ev.slot] = 1
    /\ \E s \in Slots : s # ev.slot /\ refcnt[s] = 0 /\ fins[s] = 1

\* The step is the body of a find_or_alloc_handle with a predicate that some
\* occupied slot satisfies.
FindWithOccupiedMatch(st) ==
    /\ ev'.op = "foa"
    /\ strategy = st
    /\ \E s \in Slots : Occupied(s) /\ Matches(ev'.key, data[s])

\* The step returned an occupied slot that matched, with one reference
\* more, and neither initialized nor occupied anything.
ReturnsTheMatch ==
    /\ ev'.slot # Null
    /\ Occupied(ev'.slot) /\ Matches(ev'.key, data[ev'.slot])
    /\ ev'.init = Null
    /\ refcnt' = [refcnt EXCEPT ![ev'.slot] = @ + 1]
    /\ data' = data

\* C2: fixed slab, find_or_alloc_handle with a predicate some occupied slot
\* satisfies returns that slot with its refcnt incremented, runs no
\* initializer and occupies no new slot, wherever the slot sits in the array.
C2_DedupPrecedence ==
    [][FindWithOccupiedMatch("array") => ReturnsTheMatch]_vars

\* C3: with initializers that set the key the predicate tests and objects
\* created by find_or_alloc only, no two occupied slots hold the same key.
C3_UniqueKeys ==
    \A s1, s2 \in Slots :
        Occupied(s1) /\ Occupied(s2) /\ data[s1] = data[s2] => s1 = s2

\* C4: each slot's refcnt is the number of live handles to it: the Rc
\* values outside every call plus those a call in progress holds.
C4_RefcntCountsHandles ==
    \A s \in Slots : refcnt[s] = LiveHandles(s)

\* Two Rc's of one slot, one of them inside the dealloc that is finalizing
\* the slot, the other handed out meanwhile.
C4_Witness ==
    \E s \in Finalizing : refcnt[s] = 2 /\ handles[s] = 1

\* C5: an initializer runs only on a slot whose refcnt was 0: the handle
\* returned with the initialized slot is the only live one.
C5_InitOnlyOnFree ==
    ev.init # Null =>
        /\ ev.pre = 0
        /\ ev.slot = ev.init
        /\ refcnt[ev.init] = 1
        /\ LiveHandles(ev.init) = 1
        /\ ev.init \notin Finalizing

\* A slot is initialized while another thread's finalizer has released the
\* lock through reacquire_after.
C5_Witness ==
    /\ ev.init # Null
    /\ \E t \in Threads : At(t, "dealloc", "window")

\* C6: a slot's refcnt leaves 0 only in a step that runs the initializer
\* on it; find_or_alloc never hands out a slot with refcnt 0 as a match.
C6_OccupiedOnlyByInit ==
    [][\A s \in Slots : refcnt[s] = 0 /\ refcnt'[s] > 0 => ev'.init = s]_vars

\* The arena has just handed out slot ev.slot from find_or_alloc.
Found == ev.op = "foa" /\ ev.slot # Null

\* C7 as claimed: a find_or_alloc never returns the slot whose finalizer
\* has released the lock.
C7_NoHandleToFinalizing ==
    Found => ev.slot \notin Finalizing

\* C7 as amended: a find_or_alloc whose predicate matches no object under
\* finalization (the callers' part of reacquire_after's contract) never
\* returns a slot whose finalizer has released the lock; the arena itself
\* does not keep a matching find_or_alloc from getting that slot.  (The
\* creating branch, which rewrites the key, is the first conjunct; a match
\* leaves the keys as the call found them.)
C7_NoHandleUnderContract ==
    /\ Found /\ ev.init # Null => ev.slot \notin Finalizing
    /\ Found /\ ev.init = Null /\ (\A s \in Finalizing : ~Matches(ev.key, data[s]))
          => ev.slot \notin Finalizing

\* A find_or_alloc ran to a handle while another thread's finalizer had released
\* the lock.
C7_Witness ==
    /\ Found
    /\ \E t \in Threads : At(t, "dealloc", "window")
    /\ \A s \in Finalizing : ~Matches(ev.key, data[s])

\* C8 as claimed: at most one finalize per occupied lifetime, and every
\* dealloc that ran finalize returns with the slot's refcnt at 0.
C8_FinalizeOnceConcurrent ==
    /\ \A s \in Slots : fins[s] <= 1
    /\ Deallocated /\ ev.fin = ev.slot => refcnt[ev.slot] = 0

\* C8 as amended: as long as no caller has broken the contract of
\* reacquire_after (no find_or_alloc was handed a slot under finalization),
\* there is at most one finalize per occupied lifetime and every dealloc
\* that ran finalize returns with the slot's refcnt at 0.
C8_FinalizeOnceUnderContract ==
    ~broken =>
        /\ \A s \in Slots : fins[s] <= 1
        /\ Deallocated /\ ev.fin = ev.slot => refcnt[ev.slot] = 0

\* A dealloc whose finalizer released the lock has returned after another
\* thread's call ran in between.
C8_Witness ==
    /\ ~broken
    /\ Deallocated /\ ev.fin = ev.slot
    /\ refcnt[ev.slot] = 0
    /\ \E s \in Slots : s # ev.slot /\ Occupied(s) /\ fins[s] = 0

\* C9: with a fair lock every arena call a thread is in returns, the
\* deallocs nested in a reacquire_after and the dealloc around them
\* included: every thread inside the arena gets out of it again.
C9_EveryCallReturns ==
    \A t \in Threads : ~Idle(t) ~> Idle(t)

\* A dealloc nested in the closure of a reacquire_after holds the lock.
C9_Witness ==
    \E t \in Threads :
        /\ Len(stk[t]) = 2
        /\ stk[t][1].pc = "window"
        /\ At(t, "dealloc", "cs")
        /\ lock = t

\* C10: the thread that called reacquire_after does not hold the lock while
\* the closure runs (unless a call the closure made took it) nor while it
\* spins to get it back; it holds the lock again when reacquire_after has
\* returned, and reacquire_after returned what the closure returned.
C10_ReacquireAfter ==
    \A t \in Threads :
        /\ ~Idle(t) /\ Top(t).pc \in {"window", "reacq"} => lock # t
        /\ ~Idle(t) /\ Top(t).pc = "relocked" =>
              /\ lock = t
              /\ Top(t).fres \in FResults
              /\ Top(t).ret = Top(t).fres
        /\ \A i \in 1..Len(stk[t]) :
              i < Len(stk[t]) => stk[t][i].pc = "window"

\* reacquire_after has returned into finalize: the thread holds the lock
\* again and has the closure's result, after another thread's call changed
\* the arena while the lock was released.
C10_Witness ==
    \E t \in Threads :
        /\ At(t, "dealloc", "relocked")
        /\ lock = t
        /\ Top(t).ret = "r2"
        /\ \E s \in Slots : s # Top(t).arg /\ Occupied(s)

\* What a call that has just returned did, against what the same call does
\* when it runs alone on the arena as it was at the call's last step (the
\* decrement, for a dealloc): the refcnt it left, whether finalize ran,
\* whether and with what the initializer ran, where the entry was relinked.
ReturnedAsAtomic ==
    /\ Deallocated =>
          /\ (ev.fin = ev.slot) <=> (ev.pre = 1)
          /\ refcnt[ev.slot] = ev.pre - 1
          /\ strategy = "mru" /\ ev.pre = 1 => list[Len(list)] = ev.slot
    /\ ev.op = "dup" => refcnt[ev.slot] = ev.pre + 1
    /\ ev.op \in {"foa", "alloc"} /\ ev.slot # Null =>
          /\ refcnt[ev.slot] = ev.pre + 1
          /\ ev.init # Null => ev.pre = 0 /\ data[ev.slot] = InitData(ev.key)
          /\ ev.init = Null => ev.pre > 0 \/ strategy = "mru"

\* C11 as claimed, for the fixed slab: every call, a dealloc that runs a
\* finalizer included, did what it does when run atomically at its last
\* step under the lock.  For a dealloc that ran finalize and returns with
\* a refcnt above 0 no other point will do either: run before the
\* find_or_alloc that matched its slot meanwhile, that find_or_alloc would
\* have found the slot free and run its initializer; run after it, the
\* dealloc would not have run finalize.  (A sequential MruArena matches an
\* entry whatever its refcnt, so some of its executions of this kind do
\* equal a sequential one; the formula leaves them out.)
C11_Linearizable ==
    strategy = "array" => ReturnedAsAtomic

\* C11 as amended: as long as callers keep the safety contract of
\* reacquire_after, every call returns what it returns when run atomically
\* at its last step under the lock; a dealloc whose finalizer released the
\* lock takes effect at its decrement.
C11_LinearizableUnderContract ==
    ~broken => ReturnedAsAtomic

\* A dealloc that ran a finalizer has returned while another thread's
\* finalizer has the lock released: two finalizing deallocs overlap.
C11_Witness ==
    /\ ~broken
    /\ Deallocated /\ ev.fin = ev.slot /\ ev.pre = 1
    /\ \E t \in Threads : At(t, "dealloc", "window")

\* ------------------------------------------------- the arena when full
\* Arena::alloc(f) called to fill the arena: while there are fewer handles
\* than entries (beyond the MaxHandles the other calls keep to).
FillAllocCall(t, k) ==
    /\ Idle(t)
    /\ TotalHandles < Capacity
    /\ stk' = Push(t, Frame("alloc", k, "wait"))
    /\ ev' = NoEv
    /\ UNCHANGED <<broken, strategy, refcnt, data, list, lock, handles, fins>>

\* Arena::find_or_alloc(c, n) called while every entry is referenced.
FullFindOrAllocCall(t, k) ==
    /\ Idle(t)
    /\ \A s \in Slots : Occupied(s)
    /\ TotalHandles <= Capacity
    /\ stk' = Push(t, Frame("foa", k, "wait"))
    /\ ev' = NoEv
    /\ UNCHANGED <<broken, strategy, refcnt, data, list, lock, handles, fins>>

\* Arena::alloc(f) called while every entry is referenced.
FullAllocCall(t, k) ==
    /\ Idle(t)
    /\ \A s \in Slots : Occupied(s)
    /\ TotalHandles <= Capacity
    /\ stk' = Push(t, Frame("alloc", k, "wait"))
    /\ ev' = NoEv
    /\ UNCHANGED <<broken, strategy, refcnt, data, list, lock, handles, fins>>

FullStep(t) ==
    \/ \E k \in Keys : FillAllocCall(t, k)
    \/ \E k \in Keys : FullFindOrAllocCall(t, k)
    \/ \E k \in Keys : FullAllocCall(t, k)

\* The calls of a thread whose finalizers keep the lock.
PlainStep(t) ==
    \/ \E k \in Keys : FindOrAllocCall(t, k)
    \/ \E k \in Keys : AllocCall(t, k)
    \/ \E s \in Slots : DupCall(t, s)
    \/ \E s \in Slots : DeallocCall(t, s)
    \/ Acquire(t)
    \/ FindOrAllocBody(t)
    \/ AllocBody(t)
    \/ DupBody(t)
    \/ DeallocPlain(t)
    \/ DeallocFinalize(t)

\* The arena with calls that find it full (finalizers that keep the lock).
NextFull == \E t \in Threads : PlainStep(t) \/ FullStep(t)
SpecFull == Init /\ [][NextFull]_vars

\* One thread that fills the arena, releases and allocates again.
NextFill == PlainStep(MainThread) \/ FullStep(MainThread)
SpecFill == Init /\ [][NextFill]_vars

\* Every slot has a refcount above 0.
ArenaFull == \A s \in Slots : Occupied(s)

\* The step is the body of an alloc_handle, or of a find_or_alloc_handle
\* whose predicate matches no slot.
AllocOrUnmatchedFind ==
    \/ ev'.op = "alloc"
    \/ ev'.op = "foa" /\ \A s \in Slots : ~Matches(ev'.key, data[s])

\* C12: with every slot's refcount above 0, alloc_handle and a
\* find_or_alloc_handle that matches no slot return None, run no
\* initializer and leave refcounts, data and the recency list as they were.
C12_NoCapacity ==
    [][ArenaFull /\ AllocOrUnmatchedFind =>
          /\ ev'.slot = Null
          /\ ev'.init = Null
          /\ refcnt' = refcnt /\ data' = data /\ list' = list
          /\ handles' = handles /\ fins' = fins]_vars

\* A find_or_alloc that matched nothing has just returned None from a
\* full MruArena.
C12_Witness ==
    /\ ev.op = "foa"
    /\ ev.slot = Null
    /\ ArenaFull
    /\ strategy = "mru"

\* Some slot has refcount 0.
SomeFree == \E s \in Slots : refcnt[s] = 0
\* Some occupied slot satisfies the predicate for key k.
SomeOccupiedMatch(k) == \E s \in Slots : Occupied(s) /\ Matches(k, data[s])

\* C13: alloc_handle returns None exactly when no slot has refcount 0,
\* find_or_alloc_handle exactly when moreover no occupied slot matches; in
\* every other case the step returns a handle.  The body is one pass under
\* the lock that ends the call (no wait, no retry), and the slot it
\* initializes had refcount 0 (no eviction).
C13_NoneIffNoCapacity ==
    [][/\ ev'.op = "alloc" => (ev'.slot = Null <=> ~SomeFree)
       /\ ev'.op = "foa" =>
             (ev'.slot = Null <=> ~SomeFree /\ ~SomeOccupiedMatch(ev'.key))
       /\ ev'.op \in {"alloc", "foa"} =>
             /\ \E t \in Threads :
                   /\ lock = t /\ lock' = NoThread
                   /\ At(t, ev'.op, "cs") /\ stk' = Pop(t)
             /\ ev'.slot # Null => handles'[ev'.slot] = handles[ev'.slot] + 1
             /\ ev'.init # Null => refcnt[ev'.init] = 0]_vars

\* A find_or_alloc has just got a handle out of a full arena: an occupied
\* slot matched.
C13_Witness ==
    /\ ev.op = "foa"
    /\ ev.slot # Null /\ ev.init = Null
    /\ ev.pre >= 1
    /\ ArenaFull

\* Thread t holds the lock at the start of the body of a dealloc of a slot
\* that has more than one reference, which is where the dealloc of a
\* duplicate stands when nothing came between the dup and it.
DeallocOfDuplicate(t) ==
    /\ At(t, "dealloc", "cs")
    /\ lock = t
    /\ refcnt[Top(t).arg] >= 2

\* C14: dup adds one to the slot's refcount and changes nothing else; the
\* dealloc of the duplicate, run on the refcount r + 1 the dup left, calls
\* no finalize, takes the one back and leaves data and the recency list as
\* they were: together they leave refcount r, data and list unchanged.
C14_DupDeallocSymmetry ==
    [][/\ ev'.op = "dup" =>
             /\ refcnt[ev'.slot] >= 1
             /\ refcnt' = [refcnt EXCEPT ![ev'.slot] = @ + 1]
             /\ data' = data /\ list' = list /\ fins' = fins
       /\ \A t \in Threads :
             DeallocOfDuplicate(t) /\ stk'[t] # stk[t] =>
                /\ stk' = Pop(t)
                /\ ev'.op = "dealloc" /\ ev'.fin = Null
                /\ refcnt' = [refcnt EXCEPT ![Top(t).arg] = @ - 1]
                /\ data' = data /\ list' = list /\ fins' = fins]_vars

\* The dealloc of one of two handles to a slot of an MruArena has returned
\* while another slot is unreferenced.
C14_Witness ==
    /\ Deallocated /\ ev.fin = Null
    /\ ev.pre = 2 /\ refcnt[ev.slot] = 1
    /\ strategy = "mru"
    /\ \E s \in Slots : refcnt[s] = 0

\* C15: MruArena, find_or_alloc_handle with a predicate some occupied slot
\* satisfies returns an occupied matching slot with its refcount
\* incremented, runs no initializer and occupies no new slot, wherever the
\* slot sits in the recency list and whatever unreferenced slots precede it.
C15_MruNeverSkips ==
    [][FindWithOccupiedMatch("mru") => ReturnsTheMatch]_vars

\* ------------------------------------------ calls as sequential functions
\* dealloc of a handle to slot s, run alone on refcounts rc and list l.
AfterDealloc(st, rc, l, s) ==
    [rc |-> [rc EXCEPT ![s] = Decrement(@)],
     l  |-> Relink(st, l, s, Decrement(rc[s])),
     fin |-> CallsFinalize(rc[s])]

\* alloc_handle run alone on refcounts rc and list l.
AfterAlloc(st, rc, l) ==
    LET s == AllocHandle(st, rc, l)
    IN  [slot |-> s,
         rc |-> IF s = Null THEN rc ELSE [rc EXCEPT ![s] = 1],
         l  |-> l]

\* The alloc and dealloc steps of the arena are those functions.
StepsAsSequential ==
    /\ ev'.op = "alloc" =>
          LET a == AfterAlloc(strategy, refcnt, list)
          IN  ev'.slot = a.slot /\ refcnt' = a.rc /\ list' = a.l
    /\ ev'.op = "dealloc" =>
          LET d == AfterDealloc(strategy, refcnt, list, ev'.slot)
          IN  refcnt' = d.rc /\ list' = d.l /\ (ev'.fin # Null <=> d.fin)

\* Release the handle of x, then that of y, then alloc twice: the first
\* alloc returns y, the second x, and every refcount is what it was.
LastReleasedFirst(x, y) ==
    LET d1 == AfterDealloc(strategy, refcnt, list, x)
        d2 == AfterDealloc(strategy, d1.rc, d1.l, y)
        a1 == AfterAlloc(strategy, d2.rc, d2.l)
        a2 == AfterAlloc(strategy, a1.rc, a1.l)
    IN  /\ d1.fin /\ d2.fin
        /\ a1.slot = y
        /\ a2.slot = x
        /\ a2.rc = refcnt

\* Every slot of the MruArena is allocated with one reference.
AllAllocatedOnce == strategy = "mru" /\ \A s \in Slots : refcnt[s] = 1

\* C16: in a full MruArena whose slots have one reference each (capacity
\* 3: A, B, C), releasing two of them and calling alloc twice returns the
\* two released slots, the last released first, for every choice of the
\* two and every order; neither alloc fails or touches another slot.
C16_MruReuseOrder ==
    [][/\ StepsAsSequential
       /\ AllAllocatedOnce =>
             \A x, y \in Slots : x # y => LastReleasedFirst(x, y)]_vars

\* Slot 1 was released, then slot 2, and the second alloc since has just
\* returned slot 1 (slot 2, at the back of the list, was taken first).
C16_Witness ==
    /\ AllAllocatedOnce
    /\ ev.op = "alloc" /\ ev.slot = 1
    /\ list[Len(list)] = 2 /\ list[Len(list) - 1] = 1

\* Position of entry e in list l, counted from the front.
Pos(l, e) == CHOOSE i \in 1..Len(l) : l[i] = e

\* Slot s is unreferenced after a release (its finalize has run).
Released(s) == refcnt[s] = 0 /\ fins[s] >= 1

\* C17: in the MruArena a slot whose refcount reaches 0 is relinked at one
\* fixed end of the list (the back: push_back), and alloc_handle consumes
\* from the opposite end: of the released slots it takes the one nearest
\* the front, the one that was relinked longest ago.
C17_AllocFromOppositeEnd ==
    [][strategy = "mru" =>
          /\ ev'.op = "dealloc" /\ refcnt'[ev'.slot] = 0 =>
                list'[Len(list')] = ev'.slot
          /\ ev'.op = "alloc" /\ ev'.slot # Null /\ Released(ev'.slot) =>
                \A s \in Slots :
                    Released(s) => Pos(list, ev'.slot) <= Pos(list, s)]_vars

\* ------------------------------------------------ a Handle that is dropped
\* The kernel has panicked: nothing runs any more (the panic handler is not
\* among the sources).
Panicked == ev.op = "panic"

\* A Drop that lets the handle go silently.
SilentDrop(s) == NoEv
\* impl Drop for ArrayPtr / MruPtr: panic!("... must never drop ...").
DropPanics(s) == Ev("panic", data[s], s, Null, Null, refcnt[s])

\* A handle to slot s goes out of scope in thread t without a dealloc (an
\* Rc taken apart, or a handle got from find_or_alloc_handle, alloc_handle
\* or dup directly): drop runs, the refcnt is not touched.
HandleDrop(t, s) ==
    /\ Idle(t)
    /\ handles[s] > 0
    /\ handles' = [handles EXCEPT ![s] = @ - 1]
    /\ ev' = DropPanics(s)
    /\ UNCHANGED <<broken, strategy, refcnt, data, list, lock, stk, fins>>

DropStep(t) ==
    \/ PlainStep(t)
    \/ \E s \in Slots : HandleDrop(t, s)

\* The arena with callers that may let a handle drop.
NextDrop == ~Panicked /\ \E t \in Threads : DropStep(t)
SpecDrop == Init /\ [][NextDrop]_vars

\* C18: a handle that goes out of scope without dealloc panics: a state in
\* which a slot's refcount counts a handle that no longer exists is a state
\* of a kernel that has panicked, and there the dropped handle is the only
\* one miscounted; short of that every handle that ended went through
\* dealloc, and the refcounts count the live handles.
C18_NoSilentDrop ==
    /\ \A s \in Slots : refcnt[s] # LiveHandles(s) => Panicked
    /\ Panicked =>
          /\ refcnt[ev.slot] = LiveHandles(ev.slot) + 1
          /\ \A s \in Slots : s # ev.slot => refcnt[s] = LiveHandles(s)

\* A handle was dropped while another handle to the same slot lives on: the
\* kernel has panicked with the slot's refcount one too high.
C18_Witness ==
    /\ Panicked
    /\ handles[ev.slot] = 1
    /\ refcnt[ev.slot] = 2

\* The slot of lowest index among those with refcount 0 in rc, if any.
LowestFree(rc) ==
    IF \E s \in Slots : rc[s] = 0
    THEN CHOOSE s \in Slots : rc[s] = 0 /\ \A u \in Slots : rc[u] = 0 => s <= u
    ELSE Null

\* C19: the fixed slab's alloc_handle returns the slot of lowest index with
\* refcount 0, whatever the occupied slots hold, and initializes only that
\* slot; a dealloc that brings a slot to 0 moves nothing, and the slot
\* counts as empty for the very next alloc.
C19_ArrayLowestFree ==
    [][strategy = "array" =>
          /\ ev'.op = "alloc" =>
                /\ ev'.slot = LowestFree(refcnt)
                /\ ev'.slot # Null =>
                      /\ refcnt' = [refcnt EXCEPT ![ev'.slot] = 1]
                      /\ data' = [data EXCEPT ![ev'.slot] = InitData(ev'.key)]
          /\ ev'.op = "dealloc" /\ refcnt'[ev'.slot] = 0 =>
                /\ data' = data /\ list' = list
                /\ \A s \in Slots : s # ev'.slot => refcnt'[s] = refcnt[s]
                /\ AllocHandle(strategy, refcnt', list') = LowestFree(refcnt')
                /\ AllocHandle(strategy, refcnt', list') <= ev'.slot]_vars

\* An alloc has just returned slot 2 of a fixed slab: slot 1 is occupied
\* and slot 3, released earlier, is empty behind it.
C19_Witness ==
    /\ strategy = "array"
    /\ ev.op = "alloc" /\ ev.slot = 2
    /\ Occupied(1)
    /\ Released(Capacity)

\* Threads between a lock() that returned and the end of their call, the
\* window of a reacquire_after excepted.
InCritical ==
    {t \in Threads : ~Idle(t) /\ Top(t).pc \in {"cs", "relocked"}}

\* C20: at most one thread is inside a critical section, and it is the
\* holder of the lock; every step that writes a refcount or reorders the
\* recency list is a step of that thread, the decrement and the relink of
\* a dealloc whose finalizer went through reacquire_after included.
C20_WritesUnderLock ==
    [][/\ Cardinality(InCritical) <= 1
       /\ \A t \in InCritical : lock = t
       /\ refcnt' # refcnt \/ list' # list =>
             \E t \in InCritical :
                /\ lock = t
                /\ stk' = Pop(t)
                /\ lock' = NoThread]_vars

\* A dealloc whose finalizer went through reacquire_after holds the lock
\* again, about to decrement and relink in an MruArena, while the other
\* thread spins for the lock.
C20_Witness ==
    \E t, u \in Threads :
        /\ strategy = "mru"
        /\ At(t, "dealloc", "relocked") /\ lock = t
        /\ refcnt[Top(t).arg] = 1
        /\ u # t /\ ~Idle(u) /\ Top(u).pc = "wait"

\* C21: while finalize runs, the window of a reacquire_after included, the
\* slot's refcount is at least 1 and the slot is where it was in the
\* recency list, so no alloc_handle and no creating find_or_alloc takes it;
\* the refcount reaches 0, and the MruArena relinks, only in the step in
\* which a dealloc returns after its finalize, and then no finalize of the
\* slot is still running.
C21_FinalizeBeforeFree ==
    [][/\ \A s \in Finalizing : refcnt[s] >= 1
       /\ ev'.init # Null => ev'.init \notin Finalizing /\ refcnt[ev'.init] = 0
       /\ \A s \in Slots :
             refcnt[s] >= 1 /\ refcnt'[s] = 0 =>
                /\ ev'.op = "dealloc" /\ ev'.slot = s /\ ev'.fin = s
                /\ fins'[s] >= 1
                /\ s \notin Finalizing'
       /\ list' # list =>
             /\ ev'.op = "dealloc" /\ ev'.fin = ev'.slot
             /\ refcnt'[ev'.slot] = 0]_vars

\* While a finalizer of an MruArena has released the lock, the slot it is
\* finalizing holding the last reference, an alloc by the other thread has
\* just been handed another slot.
C21_Witness ==
    \E t \in Threads :
        /\ strategy = "mru"
        /\ At(t, "dealloc", "window")
        /\ refcnt[Top(t).arg] = 1
        /\ ev.op = "alloc" /\ ev.slot # Null /\ ev.slot # Top(t).arg

\* C22: MruArena, a find_or_alloc_handle whose predicate matches no slot
\* allocates the first unreferenced slot of its scan: of the slots with
\* refcount 0 the one nearest the front of the list, where
\* list.iter_unchecked() starts.
C22_MruFirstUnreferenced ==
    [][/\ strategy = "mru"
       /\ ev'.op = "foa" /\ ev'.slot # Null
       /\ \A s \in Slots : ~Matches(ev'.key, data[s])
       => /\ ev'.init = ev'.slot
          /\ refcnt[ev'.slot] = 0
          /\ \A s \in Slots :
                refcnt[s] = 0 => Pos(list, ev'.slot) <= Pos(list, s)]_vars

\* C23: an MruArena dealloc that brings a slot's refcount to 0 moves the
\* slot to the back of the list, the end alloc_handle scans from, and
\* leaves the order of the other slots as it was: an alloc_handle run next,
\* nothing in between, returns the slot just freed (every alloc step
\* returns what alloc_handle computes on the state it starts in).
C23_FreedIsNextAllocated ==
    [][strategy = "mru" =>
          /\ ev'.op = "dealloc" /\ refcnt'[ev'.slot] = 0 =>
                /\ Len(list') = Len(list)
                /\ list'[Len(list')] = ev'.slot
                /\ ListRemove(list', ev'.slot) = ListRemove(list, ev'.slot)
                /\ AllocHandle(strategy, refcnt', list') = ev'.slot
                /\ AfterAlloc(strategy, refcnt', list').slot = ev'.slot
          /\ ev'.op = "alloc" =>
                ev'.slot = AllocHandle(strategy, refcnt, list)]_vars

\* A dealloc has just freed a slot of an MruArena that was not at the back
\* of the list when the arena was initialized, while another slot, freed
\* before it, is unreferenced too: the list is no longer in its initial
\* order and the slot just freed is at its back.
C23_Witness ==
    /\ strategy = "mru"
    /\ Deallocated /\ refcnt[ev.slot] = 0
    /\ ev.slot # MruInit[Len(MruInit)]
    /\ list[Len(list)] = ev.slot
    /\ \E s \in Slots : s # ev.slot /\ Released(s)

\* C24: whenever the lock of an initialized MruArena is free, the recency
\* list holds each of the Capacity slots exactly once.
C24_ListHoldsEverySlotOnce ==
    strategy = "mru" /\ lock = NoThread =>
        /\ Len(list) = Capacity
        /\ \A s \in Slots : Cardinality({i \in 1..Len(list) : list[i] = s}) = 1

\* The lock of an MruArena is free and no call is in progress after a
\* dealloc that reordered the list: it is not in its initial order, the
\* slot freed last is at its back and a slot is referenced.
C24_Witness ==
    /\ strategy = "mru" /\ lock = NoThread
    /\ \A t \in Threads : Idle(t)
    /\ list # MruInit
    /\ Deallocated /\ list[Len(list)] = ev.slot
    /\ \E s \in Slots : Occupied(s)

\* ------------------------------- a finalizer that drops an Rc under the lock
\* dealloc of the last handle calls finalize, which keeps the guard it was
\* handed: the thread is inside finalize with the lock held.
FinalizeBegin(t) ==
    /\ At(t, "dealloc", "cs")
    /\ lock = t
    /\ CallsFinalize(refcnt[Top(t).arg])
    /\ fins' = CountFinalize(Top(t).arg)
    /\ stk' = SetTop(t, [Top(t) EXCEPT !.pc = "fin"])
    /\ ev' = Ev("finalize", data[Top(t).arg], Top(t).arg, Null, Top(t).arg,
                refcnt[Top(t).arg])
    /\ UNCHANGED <<broken, strategy, refcnt, data, list, lock, handles>>

\* Inside finalize, with the lock held, an Rc of the same arena is dropped:
\* Rc::drop calls tag.dealloc, which starts with self.lock().
DirectDropCall(t, s) ==
    /\ At(t, "dealloc", "fin")
    /\ lock = t
    /\ Len(stk[t]) <= MaxNest
    /\ handles[s] > 0
    /\ handles' = [handles EXCEPT ![s] = @ - 1]
    /\ stk' = Push(t, Frame("dealloc", s, "wait"))
    /\ ev' = NoEv
    /\ UNCHANGED <<broken, strategy, refcnt, data, list, lock, fins>>

\* finalize returns without having given up the lock; dealloc runs to its
\* end.
FinalizeReturn(t) ==
    /\ At(t, "dealloc", "fin")
    /\ lock = t
    /\ DeallocTail(t, Top(t).arg, Top(t).arg)
    /\ UNCHANGED fins

DirectStep(t) ==
    \/ \E k \in Keys : FillAllocCall(t, k)
    \/ FinalizeBegin(t)
    \/ \E s \in Slots : DirectDropCall(t, s)
    \/ FinalizeReturn(t)

\* The arena with finalizers that may drop an Rc while they hold the lock.
NextDirect == \E t \in Threads : PlainStep(t) \/ DirectStep(t)
SpecDirect == Init /\ [][NextDirect]_vars

\* Thread t is inside a dealloc called from a finalizer that holds the lock.
DroppedUnderLock(t) ==
    /\ Len(stk[t]) >= 2
    /\ stk[t][Len(stk[t]) - 1].pc = "fin"

\* C25: a dealloc called from a finalizer that still holds the arena lock
\* spins for the lock its own thread holds: it never gets it, the thread's
\* calls stay where they are from then on (the outer dealloc never
\* returns), and the lock is never released.
C25_DirectDropDeadlocks ==
    [][\A t \in Threads :
          DroppedUnderLock(t) =>
             /\ Top(t).op = "dealloc" /\ Top(t).pc = "wait"
             /\ lock = t
             /\ stk'[t] = stk[t]
             /\ lock' = t
             /\ DroppedUnderLock(t)']_vars

\* A finalizer has dropped an Rc of another slot under the lock; the other
\* thread spins for the lock as well.
C25_Witness ==
    \E t, u \in Threads :
        /\ DroppedUnderLock(t)
        /\ Top(t).pc = "wait" /\ lock = t
        /\ Top(t).arg # stk[t][1].arg
        /\ u # t /\ ~Idle(u) /\ Top(u).pc = "wait"

\* The step changed slot s's refcount by d and nothing else of the arena,
\* and the call that returned ran neither an initializer nor a finalizer.
OnlyRefcnt(s, d) ==
    /\ refcnt' = [refcnt EXCEPT ![s] = @ + d]
    /\ data' = data /\ list' = list /\ fins' = fins
    /\ ev'.init = Null /\ ev'.fin = Null

\* What C26 says of the step: a dup that returns has added 1, a dealloc that
\* returns with the refcount above 0 has subtracted 1, and that is all.
DupDeallocFrame ==
    /\ ev'.op = "dup" => OnlyRefcnt(ev'.slot, 1)
    /\ ev'.op = "dealloc" /\ refcnt'[ev'.slot] > 0 => OnlyRefcnt(ev'.slot, -1)

\* C26 as claimed: dup, and every dealloc that leaves the refcount above 0,
\* change the target slot's refcount by +1 and -1 and nothing else, and run
\* neither an initializer nor a finalizer.
C26_DupDeallocFrame ==
    [][DupDeallocFrame]_vars

\* C26 as amended: the same, as long as callers keep the safety contract of
\* reacquire_after; a dealloc whose finalizer released the lock returns
\* with the refcount above 0, its finalize run, when a find_or_alloc
\* matched the slot meanwhile.
C26_DupDeallocFrameUnderContract ==
    [][~broken => DupDeallocFrame]_vars

\* The dealloc of one of two handles to the slot at the back of a
\* reordered MruArena list has returned without finalize: the slot stays
\* at the back, with one reference.
C26_Witness ==
    /\ ~broken
    /\ strategy = "mru"
    /\ Deallocated /\ ev.fin = Null /\ ev.pre = 2
    /\ list # MruInit
    /\ list[Len(list)] = ev.slot

\* ---------------------------------------------- creation, statement by statement
\* The entry a call of thread t under the lock is about to create an object
\* in: the `empty` of a find_or_alloc_handle that found no match, the first
\* free entry of an alloc_handle; Null when the call creates nothing.
EntryToCreate(t) ==
    IF Top(t).op = "foa"
    THEN LET r == FindOrAllocHandle(strategy, refcnt, data, list, Top(t).arg)
         IN  IF r.found = Null THEN r.empty ELSE Null
    ELSE AllocHandle(strategy, refcnt, list)

\* `entry.refcnt = 1;` of the creating branch: the entry is marked occupied,
\* its initializer has not run yet.  The frame remembers the entry.
MarkOccupied(t) ==
    /\ ~Idle(t) /\ Top(t).op \in {"foa", "alloc"} /\ Top(t).pc = "cs"
    /\ lock = t
    /\ EntryToCreate(t) # Null
    /\ refcnt' = [refcnt EXCEPT ![EntryToCreate(t)] = 1]
    /\ fins' = [fins EXCEPT ![EntryToCreate(t)] = 0]
    /\ stk' = SetTop(t, [Top(t) EXCEPT !.pc = "init", !.ret = EntryToCreate(t)])
    /\ ev' = NoEv
    /\ UNCHANGED <<broken, strategy, data, list, lock, handles>>

\* `n(&mut entry.data);` (`f(&mut entry.data);`) and the return of the
\* handle, which drops the guard.
RunInitializer(t) ==
    /\ ~Idle(t) /\ Top(t).pc = "init"
    /\ lock = t
    /\ data' = [data EXCEPT ![Top(t).ret] = InitData(Top(t).arg)]
    /\ handles' = [handles EXCEPT ![Top(t).ret] = @ + 1]
    /\ ev' = Ev(Top(t).op, Top(t).arg, Top(t).ret, Top(t).ret, Null, 0)
    /\ lock' = NoThread
    /\ stk' = Pop(t)
    /\ UNCHANGED <<broken, strategy, refcnt, list, fins>>

\* The body of find_or_alloc_handle when it returns a match or None.
FindOrNone(t) ==
    /\ ~Idle(t) /\ Top(t).op = "foa"
    /\ EntryToCreate(t) = Null
    /\ FindOrAllocBody(t)

\* The body of alloc_handle when it returns None.
AllocNone(t) ==
    /\ ~Idle(t) /\ Top(t).op = "alloc"
    /\ EntryToCreate(t) = Null
    /\ AllocBody(t)

CreateStep(t) ==
    \/ \E k \in Keys : FindOrAllocCall(t, k)
    \/ \E k \in Keys : AllocCall(t, k)
    \/ \E s \in Slots : DupCall(t, s)
    \/ \E s \in Slots : DeallocCall(t, s)
    \/ Acquire(t)
    \/ MarkOccupied(t)
    \/ RunInitializer(t)
    \/ FindOrNone(t)
    \/ AllocNone(t)
    \/ DupBody(t)
    \/ DeallocPlain(t)
    \/ DeallocFinalize(t)

\* The arena with creation taken statement by statement.
NextCreate == \E t \in Threads : CreateStep(t) \/ FullStep(t)
SpecCreate == Init /\ [][NextCreate]_vars

\* Threads inside a critical section of SpecCreate.
UnderLock ==
    {t \in Threads : ~Idle(t) /\ Top(t).pc \in {"cs", "init"}}

\* C27: while a slot is marked occupied and its initializer has not
\* finished, the creating thread holds the lock and is the only thread
\* inside a critical section (no find_or_alloc of another thread is
\* evaluating its predicate), the slot's refcount is 1, and no handle to
\* the slot exists, outside or inside a call.
C27_CreationAtomic ==
    \A t \in Threads :
        ~Idle(t) /\ Top(t).pc = "init" =>
            /\ lock = t
            /\ UnderLock = {t}
            /\ refcnt[Top(t).ret] = 1
            /\ handles[Top(t).ret] = 0
            /\ HeldBy(Top(t).ret) = {}

\* A find_or_alloc has marked a slot occupied and not yet run its
\* initializer, on an entry that still holds another key, while the other
\* thread spins at the lock in a find_or_alloc for the very key that entry
\* holds.
C27_Witness ==
    \E t, u \in Threads :
        /\ At(t, "foa", "init") /\ lock = t
        /\ data[Top(t).ret] \notin {NoKey, Top(t).arg}
        /\ u # t /\ At(u, "foa", "wait")
        /\ Matches(Top(u).arg, data[Top(t).ret])

\* C28: with handles issued by the arena and deallocated once each, no
\* refcount is ever below 0: every dealloc in progress, wherever it stands,
\* is of a slot with refcount at least 1, and every decrement, the one
\* after a finalizer gave the lock away and took it back included, starts
\* on a refcount of at least 1 and takes exactly 1 off.
C28_NoUnderflow ==
    [][/\ \A s \in Slots : refcnt[s] >= 0 /\ refcnt'[s] >= 0
       /\ \A t \in Threads : \A i \in DOMAIN stk[t] :
             stk[t][i].op = "dealloc" => refcnt[stk[t][i].arg] >= 1
       /\ ev'.op = "dealloc" =>
             /\ ev'.pre = refcnt[ev'.slot]
             /\ refcnt[ev'.slot] >= 1
             /\ refcnt'[ev'.slot] = refcnt[ev'.slot] - 1]_vars

\* A dealloc whose finalizer released the lock has decremented 1 to 0 after
\* the other thread got a handle to the very slot in the window and
\* released it again.
C28_Witness ==
    /\ broken
    /\ Deallocated /\ ev.fin = ev.slot
    /\ ev.pre = 1 /\ refcnt[ev.slot] = 0
    /\ fins[ev.slot] = 1

\* ----------------------------------------------------- every return path
\* One thread makes every call of the arena, with finalizers that give the
\* lock away and with calls that find the arena full; any thread calls
\* alloc on the full arena and contends for the lock.
NextReturn ==
    \/ Step(MainThread) \/ FullStep(MainThread)
    \/ \E t \in Threads :
          \/ \E k \in Keys : FullAllocCall(t, k)
          \/ Acquire(t)
          \/ AllocBody(t)
SpecReturn == Init /\ [][NextReturn]_vars

\* The step is thread t returning from an arena call.
Returns(t) == Len(stk'[t]) < Len(stk[t])

\* C29: every return of find_or_alloc_handle, alloc_handle, dup and dealloc
\* (a match, None, a created object, a dealloc with or without finalize,
\* with or without reacquire_after) is by the thread that holds the lock
\* and leaves the lock free, so that a thread spinning for it can take it;
\* a thread outside every call does not hold the lock.
C29_LockReleasedOnReturn ==
    [][/\ \A t \in Threads :
             /\ Idle(t) => lock # t
             /\ Returns(t) =>
                   /\ stk' = Pop(t)
                   /\ lock = t /\ lock' = NoThread
                   /\ ev'.op \in {"foa", "alloc", "dup", "dealloc"}
       /\ ev'.op \in {"foa", "alloc", "dup", "dealloc"} =>
             \E t \in Threads : Returns(t)]_vars

\* An alloc has just returned None and left the lock free while the main
\* thread is inside a finalizer that gave the lock away, in a full arena.
C29_Witness ==
    /\ ev.op = "alloc" /\ ev.slot = Null
    /\ lock = NoThread
    /\ At(MainThread, "dealloc", "window")
    /\ ArenaFull

\* ------------------------------------------------------ Rc::narrow_lifetime
\* A narrow_lifetime that lets self go out of scope: Rc::drop runs and
\* calls dealloc for the handle that was moved into the new Rc.
DropSelf(t, s) == stk' = Push(t, Frame("dealloc", s, "wait"))
\* mem::forget(self): the consumed Rc is never dropped, no call is made.
ForgetSelf(t, s) == stk' = stk

\* Rc::narrow_lifetime (Rc of a Spinlock<ArrayArena> only): the tag is
\* cloned, the handle is moved out of self (ManuallyDrop::take) into the
\* Rc returned, self is forgotten.
NarrowLifetime(t, s) ==
    /\ Idle(t)
    /\ strategy = "array"
    /\ handles[s] > 0
    /\ handles' = [handles EXCEPT ![s] = (@ - 1) + 1]
    /\ ForgetSelf(t, s)
    /\ ev' = Ev("narrow", data[s], s, Null, Null, refcnt[s])
    /\ UNCHANGED <<broken, strategy, refcnt, data, list, lock, fins>>

\* The arena with callers that narrow the lifetime of their Rc's
\* (finalizers that keep the lock).
NextNarrow ==
    \E t \in Threads : PlainStep(t) \/ \E s \in Slots : NarrowLifetime(t, s)
SpecNarrow == Init /\ [][NextNarrow]_vars

\* C30: narrow_lifetime makes no arena call (no dup, no dealloc, the lock
\* is not touched), leaves refcounts, data and finalize counts as they
\* were, and leaves as many Rc's of the slot as there were; refcounts keep
\* counting the live handles before and after, so the Rc returned is
\* released by one drop: that drop's dealloc takes the 1 off that the
\* consumed Rc stood for, and finalizes if it was the last.
C30_NarrowLifetime ==
    [][/\ \A s \in Slots : refcnt[s] = LiveHandles(s)
       /\ ev'.op = "narrow" =>
             /\ refcnt' = refcnt /\ data' = data /\ fins' = fins
             /\ handles' = handles /\ handles'[ev'.slot] >= 1
             /\ stk' = stk /\ lock' = lock
             /\ \A s \in Slots : refcnt'[s] = LiveHandles(s)'
             /\ LET d == AfterDealloc(strategy, refcnt', list', ev'.slot)
                IN  /\ d.rc[ev'.slot] = refcnt[ev'.slot] - 1
                    /\ d.fin <=> refcnt[ev'.slot] = 1
       /\ ev'.op = "dealloc" =>
             /\ refcnt' = AfterDealloc(strategy, refcnt, list, ev'.slot).rc
             /\ ev'.fin # Null
                   <=> AfterDealloc(strategy, refcnt, list, ev'.slot).fin]_vars

\* The only Rc of a slot has just been narrowed while the other thread is
\* under the lock: the slot's refcount is 1 and one Rc of it exists.
C30_Witness ==
    /\ ev.op = "narrow"
    /\ refcnt[ev.slot] = 1 /\ handles[ev.slot] = 1
    /\ \E u \in Threads : ~Idle(u) /\ Top(u).pc = "cs"

====
